---------------------------- MODULE Spec2Model ----------------------------
(***************************************************************************)
(* Titanic game: ship physics, chunked iceberg generation, collision and   *)
(* goal detection, session control and the frame loop.                     *)
(*                                                                         *)
(* The repository holds two variants of the same script:                   *)
(*   "extended"  src/unnamed/part_000 (coal, start port, goal, win)        *)
(*   "simple"    src/unnamed/part_001 (no coal, no goal, start at origin)  *)
(* The variable `variant` selects the script a behaviour runs.             *)
(*                                                                         *)
(* JavaScript numbers are modelled in fixed point:                         *)
(*   speed, acceleration, friction      hundredths of a unit per tick      *)
(*   world coordinates, sizes, radii    hundredths of a world unit         *)
(*   angles (rudder, rotation)          1/10000 rad                        *)
(*   Math.sin / Math.cos results        1/10000                            *)
(*   Math.random() and hash fractions   1/10000, in 0..9999                *)
(*   coal                               1/35000 of a percent, so that one  *)
(*                                      tick at speed s (hundredths) burns *)
(*                                      exactly s units                    *)
(* Products of world coordinates are taken on whole world units (TLC's     *)
(* integers are 32 bit).                                                   *)
(***************************************************************************)
EXTENDS Integers, Sequences, FiniteSets, TLC

(***************************************************************************)
(* Fixed-point scales                                                      *)
(***************************************************************************)
\* hundredths: speeds and world coordinates
PosScale == 100
\* 1/10000: angles, trigonometric values, random draws, hash fractions
FracScale == 10000

(***************************************************************************)
(* Configuration constants of the scripts                                  *)
(***************************************************************************)
\* shipConfig
maxSpeed == 350
maxReverseSpeed == 80
accelerationPower == 3
accelerationDecay == 8
friction == 2
\* Math.PI / 6 = 0.5236 rad
maxRudderAngle == 5236
rudderSpeed == 300
\* turnRate 0.02, in hundredths
turnRate == 2
\* pivotPoint 0.7, in tenths
pivotPoint == 7
\* ship.length, ship.width
shipLength == 20000
shipWidth == 6000
\* ship.rotation at start and after a restart: -Math.PI / 2
initialRotation == -15708

\* icebergsConfig
density == 10
minSize == 3000
maxSize == 8000
minPoints == 6
maxPoints == 12
icebergGridSize == 50000
startSafeRadius == 300

\* worldConfig and goalConfig (extended variant)
worldWidth == 1000000
worldHeight == 1000000
goalRadius == 25000
edgeOffset == 30000

\* coalConfig (extended variant): maxCoal 100 percent, depletionRate 0.01
maxCoal == 3500000
depletionRate == 350

\* restart button of drawGameOver / drawWinScreen, in canvas pixels
buttonWidth == 200
buttonHeight == 50
buttonOffsetY == 60

(***************************************************************************)
(* Bounds of the model                                                     *)
(***************************************************************************)
\* frames (gameLoop calls) explored in one behaviour
MaxTicks == 2
\* frames explored in a voyage to the last of the coal and to a standstill:
\* one frame to burn the last coal, maxSpeed / friction = 175 to stop
MaxVoyageTicks == 180

(***************************************************************************)
(* Arithmetic helpers                                                      *)
(***************************************************************************)
Abs(x) == IF x < 0 THEN -x ELSE x

Max(a, b) == IF a >= b THEN a ELSE b

Min(a, b) == IF a <= b THEN a ELSE b

\* n / d rounded to the nearest integer (d > 0)
Round(n, d) == (2 * n + d) \div (2 * d)

\* Math.floor(n / d) for d > 0
Floor(n, d) == n \div d

\* Math.ceil(n / d) for d > 0
Ceil(n, d) == -((-n) \div d)

RECURSIVE SqrtIter(_, _)
SqrtIter(n, r) ==
  LET q == (r + n \div r) \div 2
  IN  IF q >= r THEN r ELSE SqrtIter(n, q)

\* Math.sqrt on a non-negative integer, rounded down
Sqrt(n) == IF n < 2 THEN n ELSE SqrtIter(n, n)

\* pi, in 1/10000 rad
Pi == 31416

\* sine of an angle in [-pi/2, pi/2] by its Taylor series up to y^9, each
\* term from the one before: t(k+2) = t(k) * y^2 / ((k+1)(k+2))
SinPoly(y) ==
  LET y2 == Round(y * y, FracScale)
      t3 == Round(y * y2, 6 * FracScale)
      t5 == Round(t3 * y2, 20 * FracScale)
      t7 == Round(t5 * y2, 42 * FracScale)
      t9 == Round(t7 * y2, 72 * FracScale)
  IN  y - t3 + t5 - t7 + t9

\* Math.sin(a), a in 1/10000 rad, result in 1/10000
Sin(a) ==
  LET y == ((a + Pi) % (2 * Pi)) - Pi
  IN  IF y > Pi \div 2 THEN SinPoly(Pi - y)
      ELSE IF y < -(Pi \div 2) THEN SinPoly(-Pi - y)
      ELSE SinPoly(y)

\* Math.cos(a)
Cos(a) == Sin(a + Pi \div 2)

VARIABLES
  variant, horizon, booted, ticks, canvas, keys,
  gameRunning, gameOver, gameWon,
  ship, camera, currentCoal, totalDistance,
  icebergs, loadedIcebergChunks,
  startPort, goal, gameOverButton, frameRequested, lastTick, winTime, tap

vars ==
  << variant, horizon, booted, ticks, canvas, keys,
     gameRunning, gameOver, gameWon,
     ship, camera, currentCoal, totalDistance,
     icebergs, loadedIcebergChunks,
     startPort, goal, gameOverButton, frameRequested, lastTick, winTime, tap >>


(***************************************************************************)
(* updateShip                                                              *)
(***************************************************************************)
\* updateShip without its tests of currentCoal: DepletedCoalGating fails with
\* it in the place of HasCoal
CoalNeverChecked(coal) == TRUE

\* `currentCoal > 0`; the simple variant has no coal and never tests it
HasCoal(coal) == variant = "simple" \/ coal > 0

\* an acceleration that decays by accelerationDecay without stopping at
\* zero: AccelerationRule fails with it in the place of Accelerate
AccelerateOvershoots(k, acceleration, coal) ==
  IF HasCoal(coal)
  THEN IF k.ArrowUp THEN accelerationPower
       ELSE IF k.ArrowDown THEN -accelerationPower
       ELSE IF acceleration > 0 THEN acceleration - accelerationDecay
       ELSE IF acceleration < 0 THEN acceleration + accelerationDecay
       ELSE acceleration
  ELSE 0

\* acceleration input: Up, else Down, else decay toward zero; none without coal
Accelerate(k, acceleration, coal) ==
  IF HasCoal(coal)
  THEN IF k.ArrowUp THEN accelerationPower
       ELSE IF k.ArrowDown THEN -accelerationPower
       ELSE IF acceleration > 0 THEN Max(0, acceleration - accelerationDecay)
       ELSE IF acceleration < 0 THEN Min(0, acceleration + accelerationDecay)
       ELSE acceleration
  ELSE 0

\* the clamp without its lower limit: SpeedBounds fails with it in the place
\* of ClampSpeed
ClampUpperOnly(s) == IF s > maxSpeed THEN maxSpeed ELSE s

\* the clamp of ship.speed to [-maxReverseSpeed, maxSpeed]
ClampSpeed(s) ==
  IF s > maxSpeed THEN maxSpeed
  ELSE IF s < -maxReverseSpeed THEN -maxReverseSpeed
  ELSE s

\* speed += acceleration, clamped
ApplyAcceleration(speed, acceleration, coal) ==
  IF acceleration # 0 /\ (HasCoal(coal) \/ acceleration < 0)
  THEN ClampSpeed(speed + acceleration)
  ELSE speed

\* the condition under which friction is applied
FrictionApplies(speed, acceleration, coal) ==
  \/ acceleration = 0
  \/ ~HasCoal(coal)
  \/ (acceleration > 0 /\ speed >= maxSpeed)
  \/ (acceleration < 0 /\ speed <= -maxReverseSpeed)

\* friction without Math.max(0, ...) and Math.min(0, ...): FrictionRule fails
\* with it in the place of ApplyFriction
ApplyFrictionThroughZero(speed, acceleration, coal) ==
  IF \/ acceleration = 0
     \/ ~HasCoal(coal)
     \/ (acceleration > 0 /\ speed >= maxSpeed)
     \/ (acceleration < 0 /\ speed <= -maxReverseSpeed)
  THEN IF speed > 0 THEN speed - friction
       ELSE IF speed < 0 THEN speed + friction
       ELSE speed
  ELSE speed

\* friction pulls the speed toward zero and stops at zero
ApplyFriction(speed, acceleration, coal) ==
  IF FrictionApplies(speed, acceleration, coal)
  THEN IF speed > 0 THEN Max(0, speed - friction)
       ELSE IF speed < 0 THEN Min(0, speed + friction)
       ELSE speed
  ELSE speed

\* a rudder that returns to centre by rudderSpeed without stopping at zero:
\* RudderBound fails with it in the place of UpdateRudder
UpdateRudderOvershoots(k, rudderAngle) ==
  IF k.ArrowLeft THEN Max(rudderAngle - rudderSpeed, -maxRudderAngle)
  ELSE IF k.ArrowRight THEN Min(rudderAngle + rudderSpeed, maxRudderAngle)
  ELSE IF rudderAngle > 0 THEN rudderAngle - rudderSpeed
  ELSE IF rudderAngle < 0 THEN rudderAngle + rudderSpeed
  ELSE rudderAngle

\* rudder control: Left, else Right, else return to centre
UpdateRudder(k, rudderAngle) ==
  IF k.ArrowLeft THEN Max(rudderAngle - rudderSpeed, -maxRudderAngle)
  ELSE IF k.ArrowRight THEN Min(rudderAngle + rudderSpeed, maxRudderAngle)
  ELSE IF rudderAngle > 0 THEN Max(0, rudderAngle - rudderSpeed)
  ELSE IF rudderAngle < 0 THEN Min(0, rudderAngle + rudderSpeed)
  ELSE rudderAngle

\* a turn that does not depend on the speed: AtRestNothingMoves fails with
\* it in the place of RotationDelta
RotationDeltaAtAnySpeed(rudderAngle, speed) ==
  Round(rudderAngle * turnRate, PosScale)

\* rudderAngle * turnRate * (|speed| / maxSpeed)
RotationDelta(rudderAngle, speed) ==
  Round(rudderAngle * turnRate * Abs(speed), PosScale * maxSpeed)

\* (pivotPoint - 0.5) * ship.length
PivotOffset == ((pivotPoint - 5) * shipLength) \div 10

\* coal burnt in one tick: depletionRate * (|speed| / maxSpeed)
CoalDepletion(speed) == (depletionRate * Abs(speed)) \div maxSpeed

\* a depletion that never takes the last unit: DepletionStall fails with it
\* in the place of DepleteCoal
DepleteCoalKeepsReserve(coal, speed) ==
  IF variant = "extended" /\ Abs(speed) > 0
  THEN Max(1, coal - (depletionRate * Abs(speed)) \div maxSpeed)
  ELSE coal

\* the depletion without Math.max(0, ...): CoalMonotone fails with it in the
\* place of DepleteCoal
DepleteCoalUnclamped(coal, speed) ==
  IF variant = "extended" /\ Abs(speed) > 0
  THEN coal - CoalDepletion(speed)
  ELSE coal

\* currentCoal after the tick (extended variant only)
DepleteCoal(coal, speed) ==
  IF variant = "extended" /\ Abs(speed) > 0
  THEN Max(0, coal - CoalDepletion(speed))
  ELSE coal

\* updateShip moving the ship by speed * deltaTime, as the comment
\* `Calculate delta time for consistent physics` suggests (a deltaTime that is
\* not a number moving it by the plain speed): TimingIndependence fails with
\* it in the place of UpdateShip
UpdateShipScaled(deltaTime, k, sh, cam, coal, dist) ==
  LET acc      == Accelerate(k, sh.acceleration, coal)
      speed1   == ApplyAcceleration(sh.speed, acc, coal)
      speed    == ApplyFriction(speed1, acc, coal)
      rudder   == UpdateRudder(k, sh.rudderAngle)
      rotation == sh.rotation + RotationDelta(rudder, speed)
      pivotWorldX    == cam.x + Round(Cos(sh.rotation) * PivotOffset, FracScale)
      pivotWorldY    == cam.y + Round(Sin(sh.rotation) * PivotOffset, FracScale)
      newPivotWorldX == cam.x + Round(Cos(rotation) * PivotOffset, FracScale)
      newPivotWorldY == cam.y + Round(Sin(rotation) * PivotOffset, FracScale)
      oldCameraX == cam.x + (pivotWorldX - newPivotWorldX)
      oldCameraY == cam.y + (pivotWorldY - newPivotWorldY)
      scale == IF deltaTime.nan THEN PosScale ELSE deltaTime.times
      moveX == Round(Cos(rotation) * speed * scale, FracScale * PosScale)
      moveY == Round(Sin(rotation) * speed * scale, FracScale * PosScale)
      distanceThisFrame == Sqrt(moveX * moveX + moveY * moveY)
  IN  [ ship   |-> [rotation |-> rotation, speed |-> speed,
                    acceleration |-> acc, rudderAngle |-> rudder],
        camera |-> [x |-> oldCameraX + moveX, y |-> oldCameraY + moveY],
        currentCoal   |-> DepleteCoal(coal, speed),
        totalDistance |-> IF variant = "extended"
                          THEN dist + distanceThisFrame ELSE dist ]

\* One call of updateShip(deltaTime) on (ship, camera, currentCoal,
\* totalDistance) with the key flags k: the new values of the four.  The
\* function never reads its parameter.
UpdateShip(deltaTime, k, sh, cam, coal, dist) ==
  LET acc      == Accelerate(k, sh.acceleration, coal)
      speed1   == ApplyAcceleration(sh.speed, acc, coal)
      speed    == ApplyFriction(speed1, acc, coal)
      rudder   == UpdateRudder(k, sh.rudderAngle)
      rotation == sh.rotation + RotationDelta(rudder, speed)
      pivotWorldX    == cam.x + Round(Cos(sh.rotation) * PivotOffset, FracScale)
      pivotWorldY    == cam.y + Round(Sin(sh.rotation) * PivotOffset, FracScale)
      newPivotWorldX == cam.x + Round(Cos(rotation) * PivotOffset, FracScale)
      newPivotWorldY == cam.y + Round(Sin(rotation) * PivotOffset, FracScale)
      oldCameraX == cam.x + (pivotWorldX - newPivotWorldX)
      oldCameraY == cam.y + (pivotWorldY - newPivotWorldY)
      moveX == Round(Cos(rotation) * speed, FracScale)
      moveY == Round(Sin(rotation) * speed, FracScale)
      distanceThisFrame == Sqrt(moveX * moveX + moveY * moveY)
  IN  [ ship   |-> [rotation |-> rotation, speed |-> speed,
                    acceleration |-> acc, rudderAngle |-> rudder],
        camera |-> [x |-> oldCameraX + moveX, y |-> oldCameraY + moveY],
        currentCoal   |-> DepleteCoal(coal, speed),
        totalDistance |-> IF variant = "extended"
                          THEN dist + distanceThisFrame ELSE dist ]


(***************************************************************************)
(* Iceberg generation                                                      *)
(***************************************************************************)
\* HASH-TABLE-BEGIN
\* rows <<n, h1, h2, sizeHash, pointsHash>>: for n = seed + i, the fractional
\* parts Math.abs(h - Math.floor(h)), in 1/10000 rounded down, of
\*   h1 = Math.sin(n * 0.1) * 10000       h2 = Math.cos(n * 0.1) * 10000
\*   sizeHash = Math.sin(n * 0.15) * 10000  pointsHash = Math.sin(n * 0.2) * 10000
\* evaluated in IEEE double arithmetic, for every n the chunks within the
\* explored region of the world ask for.
HashRows ==
  <<
    <<-3002, 1720, 6466, 4082, 4333>>, <<-3001, 6720, 2281, 2388, 7358>>, <<-3000, 5583, 338, 8372, 1755>>,
    <<-2999, 5524, 473, 9848, 2293>>, <<-2998, 3736, 2301, 9092, 6720>>, <<-2002, 24, 7374, 3323, 866>>,
    <<-2001, 9683, 3801, 3173, 1789>>, <<-2000, 9729, 8767, 5583, 1935>>, <<-1999, 7205, 6951, 2758, 9735>>,
    <<-1998, 7874, 7896, 7323, 8860>>, <<-1997, 6657, 5116, 1598, 8942>>, <<-1992, 1913, 6178, 7436, 8120>>,
    <<-1991, 7752, 6344, 9302, 1074>>, <<-1990, 9883, 7428, 7866, 4199>>, <<-1989, 950, 9746, 7108, 3280>>,
    <<-1988, 2400, 8901, 3463, 1907>>, <<-1987, 3967, 4937, 8268, 6578>>, <<-1982, 3158, 5143, 494, 8527>>,
    <<-1981, 9783, 9599, 9432, 5697>>, <<-1980, 7859, 7140, 3094, 4756>>, <<-1979, 6422, 679, 6526, 6313>>,
    <<-1978, 5304, 3178, 4697, 5759>>, <<-1002, 5572, 2922, 479, 4025>>, <<-1001, 4768, 6308, 5440, 24>>,
    <<-1000, 6564, 1887, 7642, 9729>>, <<-999, 2416, 5865, 4387, 7874>>, <<-998, 8835, 3058, 9028, 7989>>,
    <<-997, 8222, 6340, 5841, 5021>>, <<-992, 7803, 3886, 7010, 8007>>, <<-991, 3950, 7617, 3806, 3158>>,
    <<-990, 683, 2088, 6753, 7859>>, <<-989, 9041, 6770, 9701, 5304>>, <<-988, 41, 1536, 4231, 1339>>,
    <<-987, 4662, 5652, 4227, 2728>>, <<-982, 1985, 5636, 4586, 7279>>, <<-981, 969, 4745, 1971, 6041>>,
    <<-980, 8187, 1175, 5597, 6994>>, <<-979, 2500, 6211, 7006, 3557>>, <<-978, 8496, 2958, 7018, 9823>>,
    <<-2, 3066, 6657, 7979, 8165>>, <<-1, 6658, 416, 6186, 3066>>, <<0, 0, 0, 0, 0>>,
    <<1, 3341, 416, 3813, 6933>>, <<2, 6933, 6657, 2020, 1834>>, <<3, 2020, 3648, 6553, 4247>>,
    <<8, 5609, 670, 3908, 7360>>, <<9, 2690, 996, 2335, 4763>>, <<10, 7098, 230, 9498, 9742>>,
    <<11, 736, 9612, 6502, 9640>>, <<12, 3908, 5775, 4763, 6318>>, <<13, 5818, 9882, 5971, 137>>,
    <<18, 4763, 9790, 7988, 7955>>, <<19, 8, 1043, 7801, 4210>>, <<20, 9742, 5316, 2000, 9750>>,
    <<21, 936, 5389, 9275, 2422>>, <<22, 9640, 9888, 5430, 9792>>, <<998, 1164, 3058, 971, 2010>>,
    <<999, 7583, 5865, 5612, 2125>>, <<1000, 3435, 1887, 2357, 270>>, <<1001, 5231, 6308, 4559, 9975>>,
    <<1002, 4427, 2922, 9520, 5974>>, <<1003, 8307, 4596, 4159, 2349>>, <<1008, 135, 2782, 8806, 7980>>,
    <<1009, 1564, 7583, 1262, 6153>>, <<1010, 2578, 486, 3081, 1840>>, <<1011, 1943, 2128, 2033, 2591>>,
    <<1012, 2937, 2049, 8516, 4127>>, <<1013, 4219, 8204, 938, 6454>>, <<1018, 1452, 232, 4559, 4619>>,
    <<1019, 1515, 9515, 1875, 6034>>, <<1020, 2679, 8570, 58, 2035>>, <<1021, 9844, 6124, 7239, 2247>>,
    <<1022, 7845, 1918, 2220, 8416>>, <<1998, 2125, 7896, 2676, 1139>>, <<1999, 2794, 6951, 7241, 264>>,
    <<2000, 270, 8767, 4416, 8064>>, <<2001, 316, 3801, 6826, 8210>>, <<2002, 9975, 7374, 6676, 9133>>,
    <<2003, 8102, 516, 6148, 132>>, <<2008, 5495, 9205, 3580, 7408>>, <<2009, 7691, 1798, 8659, 7206>>,
    <<2010, 974, 8296, 3880, 5679>>, <<2011, 6097, 7541, 7422, 6679>>, <<2012, 3190, 8344, 2788, 4425>>,
    <<2013, 2766, 9489, 6357, 5224>>, <<2018, 6153, 6844, 775, 2346>>, <<2019, 5364, 9861, 109, 5644>>,
    <<2020, 1840, 4537, 3250, 4359>>, <<2021, 2570, 8360, 627, 798>>, <<2022, 2591, 4723, 2431, 8857>>,
    <<2999, 4475, 473, 151, 7706>>, <<3000, 4416, 338, 1627, 8244>>, <<3001, 3279, 2281, 7611, 2641>>,
    <<3002, 8279, 6466, 5917, 5666>>, <<3003, 6676, 3834, 4777, 7426>>, <<3008, 1225, 8607, 7574, 1239>>,
    <<3009, 3292, 17, 2899, 6500>>, <<3010, 3595, 2667, 4250, 413>>, <<3011, 2195, 6682, 9806, 9168>>,
    <<3012, 3580, 463, 8575, 1656>>, <<3013, 7510, 1210, 5584, 4258>>, <<3018, 2788, 3025, 8509, 6733>>,
    <<3019, 59, 1264, 3750, 1350>>, <<3020, 5283, 7085, 656, 8388>>, <<3021, 4883, 5399, 9815, 6373>>,
    <<3022, 9239, 288, 734, 9409>>, <<5012, 1719, 1196, 7806, 3058>>, <<5013, 3138, 9670, 8795, 6340>>,
    <<5014, 513, 4026, 686, 8595>>, <<5015, 7591, 7900, 324, 5839>>, <<5016, 8631, 8032, 6544, 207>>,
    <<5017, 8759, 5195, 8401, 6338>>, <<6012, 8092, 1632, 1119, 2214>>, <<6013, 150, 9002, 7287, 3370>>,
    <<6014, 2214, 5925, 4767, 5837>>, <<6015, 443, 6010, 5108, 6420>>, <<6016, 1239, 739, 7334, 8183>>,
    <<6017, 1090, 449, 1457, 417>>, <<7000, 7052, 9567, 5653, 396>>, <<7001, 8228, 8126, 7128, 9636>>,
    <<7002, 2303, 5163, 9508, 2457>>, <<7003, 260, 1873, 2413, 3700>>, <<7004, 6741, 163, 8126, 9832>>,
    <<7012, 3390, 4225, 63, 8256>>, <<7013, 8563, 9332, 1531, 7395>>, <<7014, 6198, 2422, 8899, 9057>>,
    <<7015, 7659, 3623, 1022, 6430>>, <<7016, 6978, 6286, 3266, 1147>>, <<7017, 216, 7754, 203, 7637>>,
    <<7999, 4162, 5930, 5796, 2283>>, <<8000, 6964, 7248, 2139, 7520>>, <<8001, 6542, 6321, 6736, 6989>>,
    <<8002, 2058, 84, 3066, 938>>, <<8003, 1108, 133, 7713, 5921>>, <<8004, 9149, 1904, 7853, 4163>>,
    <<8012, 6447, 286, 264, 4563>>, <<8013, 3890, 3464, 1193, 332>>, <<8014, 3833, 7089, 635, 8722>>,
    <<8015, 3196, 7047, 8975, 6547>>, <<8016, 6008, 9664, 2214, 8747>>, <<8017, 2464, 2052, 8239, 2913>>,
    <<8018, 8030, 2528, 2154, 9313>>, <<8019, 2583, 1139, 776, 5634>>, <<8020, 9616, 254, 6420, 5843>>,
    <<8021, 5503, 5245, 106, 2822>>, <<8022, 8838, 5229, 4351, 4662>>, <<8999, 477, 2985, 1880, 9266>>,
    <<9000, 327, 4670, 8568, 235>>, <<9001, 3204, 163, 3077, 4154>>, <<9002, 7482, 9326, 3314, 6611>>,
    <<9003, 1511, 1686, 3375, 2484>>, <<9004, 3535, 5435, 9509, 4658>>, <<9012, 626, 1335, 5950, 8034>>,
    <<9013, 4375, 7940, 6593, 4060>>, <<9014, 7656, 7479, 2475, 8811>>, <<9015, 6256, 8234, 3103, 3930>>,
    <<9016, 8307, 8781, 5264, 8486>>, <<9017, 3306, 7808, 5114, 8515>>, <<9018, 1119, 4025, 9172, 8275>>,
    <<9019, 987, 6180, 4164, 1966>>, <<9020, 527, 3169, 5754, 4662>>, <<9021, 4767, 4247, 6170, 1209>>,
    <<9022, 5187, 9338, 788, 1949>>, <<9999, 436, 1973, 3664, 357>>, <<10000, 7954, 7907, 9804, 3950>>,
    <<10001, 9281, 1931, 8033, 9769>>, <<10002, 2447, 9333, 294, 2762>>, <<10003, 4257, 163, 8134, 1145>>,
    <<10004, 721, 8337, 3565, 6541>>, <<10018, 276, 7161, 3300, 8760>>, <<10019, 5784, 1253, 4715, 180>>,
    <<10020, 6654, 8828, 9454, 7991>>, <<10021, 397, 1494, 9387, 690>>, <<10022, 6192, 1015, 5228, 4355>>,
    <<10999, 1003, 9407, 6033, 8334>>, <<11000, 6439, 5347, 4082, 521>>, <<11001, 3966, 8387, 5891, 6993>>,
    <<11002, 5584, 5757, 254, 7761>>, <<11003, 8446, 3236, 9298, 3395>>, <<11004, 5686, 4596, 3724, 6959>>,
    <<11018, 1823, 2377, 3870, 955>>, <<11019, 7395, 9162, 2548, 7116>>, <<11020, 6891, 2775, 4378, 8481>>,
    <<11021, 3453, 1222, 5913, 7189>>, <<11022, 6651, 4869, 8864, 8809>>, <<11999, 1876, 633, 4433, 6492>>,
    <<12000, 2139, 9582, 235, 3209>>, <<12001, 606, 3264, 9138, 1057>>, <<12002, 7477, 7847, 7137, 6371>>,
    <<12003, 3066, 9479, 9349, 9178>>, <<12018, 264, 5485, 5087, 8780>>, <<12019, 4511, 1066, 2352, 8449>>,
    <<12020, 8423, 4938, 3930, 4813>>, <<12021, 635, 2782, 3577, 2994>>, <<12022, 9194, 6943, 1397, 7979>>,
    <<16999, 3317, 8437, 9496, 5617>>, <<17000, 7944, 718, 9002, 8718>>, <<17001, 168, 3924, 5120, 991>>,
    <<17002, 9993, 4759, 8182, 5607>>, <<17003, 2648, 1158, 1531, 9192>>, <<17008, 5119, 2760, 2680, 5700>>,
    <<17009, 7793, 3517, 1456, 8454>>, <<17010, 2786, 3114, 3976, 4971>>, <<17011, 2132, 4137, 7451, 3790>>,
    <<17012, 8025, 7458, 4448, 7179>>, <<17013, 2705, 3228, 9121, 348>>, <<17018, 4800, 8605, 6147, 214>>,
    <<17019, 1268, 6292, 5553, 7887>>, <<17020, 3901, 9471, 3478, 5618>>, <<17021, 2631, 6968, 5060, 5855>>,
    <<17022, 635, 4962, 718, 2678>>, <<17999, 9904, 2744, 4580, 1541>>, <<18000, 235, 7725, 1266, 1604>>,
    <<18001, 8473, 3102, 9467, 6513>>, <<18002, 4154, 7115, 769, 1094>>, <<18003, 7137, 8027, 6384, 9821>>,
    <<18008, 4658, 7229, 3562, 8630>>, <<18009, 2684, 8839, 2985, 5288>>, <<18010, 4405, 9561, 7497, 7841>>,
    <<18011, 8146, 6549, 342, 7217>>, <<18012, 4620, 499, 1326, 1148>>, <<18013, 6318, 6441, 4234, 5885>>,
    <<18018, 6342, 6293, 995, 7382>>, <<18019, 6618, 4887, 760, 2950>>, <<18020, 6811, 8295, 9501, 6098>>,
    <<18021, 2539, 9663, 1376, 7958>>, <<18022, 9873, 5056, 8086, 811>>, <<18999, 9418, 1797, 5727, 5405>>,
    <<19000, 2172, 9264, 7655, 4466>>, <<19001, 9518, 3883, 1792, 2427>>, <<19002, 3113, 3158, 5967, 1063>>,
    <<19003, 9950, 6157, 4545, 8607>>, <<19008, 7839, 9412, 7125, 1480>>, <<19009, 5238, 2303, 3776, 6027>>,
    <<19010, 6689, 6560, 6440, 4797>>, <<19011, 7999, 3966, 4918, 8874>>, <<19012, 1676, 6877, 4867, 8399>>,
    <<19013, 6011, 8603, 1933, 5286>>, <<19018, 5696, 7756, 7104, 9227>>, <<19019, 7676, 4311, 7337, 6923>>,
    <<19020, 3492, 8749, 8585, 2998>>, <<19021, 1162, 5207, 5738, 8168>>, <<19022, 8996, 5500, 4886, 4946>>,
    <<19999, 7792, 2523, 3283, 3884>>, <<20000, 3950, 4045, 8997, 9620>>, <<20001, 843, 2719, 2458, 270>>,
    <<20002, 9769, 9485, 6637, 9658>>, <<20003, 895, 701, 8084, 2091>>, <<20008, 6541, 1896, 5124, 2227>>,
    <<20009, 8087, 5851, 815, 3637>>, <<20010, 9594, 5950, 6678, 9904>>, <<20011, 7965, 6372, 3403, 8325>>,
    <<20012, 2036, 1501, 3377, 5910>>, <<20013, 1582, 5782, 9061, 9805>>, <<20018, 4346, 7081, 4950, 5423>>,
    <<20019, 92, 9937, 7546, 5323>>, <<20020, 3697, 3460, 1529, 9357>>, <<20021, 7865, 9171, 2057, 9921>>,
    <<20022, 8098, 1676, 6400, 8222>>, <<20999, 4171, 4438, 4547, 3417>>, <<21000, 5950, 7274, 6097, 6608>>,
    <<21001, 493, 6166, 7021, 5988>>, <<21002, 7362, 442, 5152, 183>>, <<21003, 6090, 9976, 6789, 5165>>,
    <<21008, 1271, 5301, 4406, 9271>>, <<21009, 7696, 9955, 2818, 1222>>, <<21010, 9857, 2245, 4414, 7052>>,
    <<21011, 9072, 2089, 8180, 980>>, <<21012, 3284, 1937, 9695, 9428>>, <<21013, 6281, 6145, 4719, 7943>>,
    <<21018, 5418, 7493, 4000, 7845>>, <<21019, 6972, 8909, 6711, 8598>>, <<21020, 2011, 4314, 8700, 5960>>,
    <<21021, 7904, 1475, 8754, 2833>>, <<21022, 9313, 8545, 9444, 5059>>, <<21999, 2596, 8754, 3269, 9986>>,
    <<22000, 521, 7922, 61, 6803>>, <<22001, 5085, 4437, 7094, 6000>>, <<22002, 6993, 8669, 8064, 2423>>,
    <<22003, 5267, 6503, 6886, 7344>>, <<22008, 6959, 285, 4249, 9591>>, <<22009, 1568, 9140, 2047, 1818>>,
    <<22010, 9874, 526, 5036, 1238>>, <<22011, 7974, 849, 4637, 5178>>, <<22012, 1457, 3428, 7847, 7496>>,
    <<22013, 5051, 7563, 9889, 4907>>, <<22018, 6447, 7720, 7553, 1951>>, <<22019, 4974, 5856, 6584, 6947>>,
    <<22020, 4841, 351, 7965, 9356>>, <<22021, 1271, 1338, 1009, 8056>>, <<22022, 2019, 9288, 8280, 3936>>
  >>

HashTable ==
  [ n \in {HashRows[i][1] : i \in 1..Len(HashRows)} |->
      LET row == HashRows[CHOOSE i \in 1..Len(HashRows) : HashRows[i][1] = n]
      IN  <<row[2], row[3], row[4], row[5]>> ]
\* HASH-TABLE-END

\* Math.abs(h - Math.floor(h)) of the four hashes of generateIcebergsForChunk
\* for n = seed + i
Hash(n) == HashTable[n]

\* a coordinate or a difference of coordinates in whole world units
Units(v) == Round(v, PosScale)

\* screenArea is 0: chunkArea / screenArea is Infinity, expectedCount is
\* Infinity, and the loop `for (let i = 0; i < expectedCount; i++)` has no end
Unbounded(cv) == cv.width * cv.height = 0

\* Math.floor(screensPerChunk * density) for a screenArea that is not 0; the
\* canvas is in whole units
ExpectedCount(cv) ==
  LET screenArea == cv.width * cv.height
      chunkArea  == (icebergGridSize \div PosScale) * (icebergGridSize \div PosScale)
  IN  Floor(chunkArea * density, screenArea)

\* chunkX * 1000 + chunkY
ChunkSeed(chunkX, chunkY) == chunkX * 1000 + chunkY

\* the point the safe zone is measured from: the world origin in both scripts
SafeZoneCentre == [x |-> 0, y |-> 0]

\* distFromStart < startSafeRadius
InSafeZone(x, y) ==
  LET dx == Units(x - SafeZoneCentre.x)
      dy == Units(y - SafeZoneCentre.y)
  IN  Sqrt(dx * dx + dy * dy) < startSafeRadius

\* a candidate placed half a chunk to the right of where the script puts
\* it, so that some leave their chunk: WellFormedIcebergs fails with it in
\* the place of Candidate
CandidateOffGrid(chunkX, chunkY, i) ==
  LET seed == ChunkSeed(chunkX, chunkY)
      h    == Hash(seed + i)
  IN  [ x |-> chunkX * icebergGridSize + Floor(h[1] * icebergGridSize, FracScale)
                + icebergGridSize \div 2,
        y |-> chunkY * icebergGridSize + Floor(h[2] * icebergGridSize, FracScale),
        size |-> minSize + Floor(h[3] * (maxSize - minSize), FracScale),
        pointCount |-> Floor(minPoints * FracScale + h[4] * (maxPoints - minPoints),
                             FracScale),
        seed |-> seed + i ]

\* a candidate whose size also depends on the number of frames run so far:
\* DeterministicGeneration fails with it in the place of Candidate
CandidateByFrame(chunkX, chunkY, i) ==
  LET seed == ChunkSeed(chunkX, chunkY)
      h    == Hash(seed + i)
  IN  [ x |-> chunkX * icebergGridSize + Floor(h[1] * icebergGridSize, FracScale),
        y |-> chunkY * icebergGridSize + Floor(h[2] * icebergGridSize, FracScale),
        size |-> minSize + Floor(h[3] * (maxSize - minSize), FracScale) + ticks,
        pointCount |-> Floor(minPoints * FracScale + h[4] * (maxPoints - minPoints),
                             FracScale),
        seed |-> seed + i ]

\* the i-th candidate iceberg of a chunk
Candidate(chunkX, chunkY, i) ==
  LET seed == ChunkSeed(chunkX, chunkY)
      h    == Hash(seed + i)
  IN  [ x |-> chunkX * icebergGridSize + Floor(h[1] * icebergGridSize, FracScale),
        y |-> chunkY * icebergGridSize + Floor(h[2] * icebergGridSize, FracScale),
        size |-> minSize + Floor(h[3] * (maxSize - minSize), FracScale),
        pointCount |-> Floor(minPoints * FracScale + h[4] * (maxPoints - minPoints),
                             FracScale),
        seed |-> seed + i ]

\* the loop of generateIcebergsForChunk from index i on: the list with the
\* accepted candidates appended in order
RECURSIVE ChunkLoop(_, _, _, _, _)
ChunkLoop(chunkX, chunkY, i, expectedCount, list) ==
  IF i >= expectedCount THEN list
  ELSE LET c == Candidate(chunkX, chunkY, i)
       IN  ChunkLoop(chunkX, chunkY, i + 1, expectedCount,
                     IF InSafeZone(c.x, c.y) THEN list ELSE Append(list, c))

\* generateIcebergsForChunk without `loadedIcebergChunks.add(chunkKey)`: the
\* chunk is generated at every call, and IdempotentGeneration fails with it in
\* the place of GenerateIcebergsForChunk
GenerateChunkUnmarked(chunkX, chunkY, cv, w) ==
  IF <<chunkX, chunkY>> \in w.loaded THEN w
  ELSE [ icebergs |-> ChunkLoop(chunkX, chunkY, 0, ExpectedCount(cv), w.icebergs),
         loaded   |-> w.loaded ]

\* generateIcebergsForChunk on the world w = [icebergs, loaded]
GenerateIcebergsForChunk(chunkX, chunkY, cv, w) ==
  IF <<chunkX, chunkY>> \in w.loaded THEN w
  ELSE [ icebergs |-> ChunkLoop(chunkX, chunkY, 0, ExpectedCount(cv), w.icebergs),
         loaded   |-> w.loaded \cup {<<chunkX, chunkY>>} ]

\* a chunk range with one more column than the script's Math.ceil gives:
\* ViewportCoverage fails with it in the place of MaxChunkX
MaxChunkXWithMargin(cam, cv) ==
  Ceil(cam.x + (cv.width * PosScale) \div 2, icebergGridSize) + 1

\* the chunk range of the viewport
MinChunkX(cam, cv) == Floor(cam.x - (cv.width * PosScale) \div 2, icebergGridSize)
MaxChunkX(cam, cv) == Ceil(cam.x + (cv.width * PosScale) \div 2, icebergGridSize)
MinChunkY(cam, cv) == Floor(cam.y - (cv.height * PosScale) \div 2, icebergGridSize)
MaxChunkY(cam, cv) == Ceil(cam.y + (cv.height * PosScale) \div 2, icebergGridSize)

\* the chunk keys ensureIcebergsGenerated visits for a camera and a window
ViewportChunks(cam, cv) ==
  { <<chunkX, chunkY>> : chunkX \in MinChunkX(cam, cv)..MaxChunkX(cam, cv),
                         chunkY \in MinChunkY(cam, cv)..MaxChunkY(cam, cv) }

\* ensureIcebergsGenerated never returns: the window has no area and a chunk
\* of the viewport is still to be generated
GenerationHangs(cam, cv, loaded) ==
  Unbounded(cv) /\ ~(ViewportChunks(cam, cv) \subseteq loaded)

\* the nested loops of ensureIcebergsGenerated, chunkX outer, chunkY inner
RECURSIVE EnsureLoop(_, _, _, _, _, _, _)
EnsureLoop(chunkX, chunkY, maxX, minY, maxY, cv, w) ==
  IF chunkX > maxX THEN w
  ELSE IF chunkY > maxY THEN EnsureLoop(chunkX + 1, minY, maxX, minY, maxY, cv, w)
  ELSE EnsureLoop(chunkX, chunkY + 1, maxX, minY, maxY, cv,
                  GenerateIcebergsForChunk(chunkX, chunkY, cv, w))

EnsureIcebergsGenerated(cam, cv, w) ==
  EnsureLoop(MinChunkX(cam, cv), MinChunkY(cam, cv), MaxChunkX(cam, cv),
             MinChunkY(cam, cv), MaxChunkY(cam, cv), cv, w)

(***************************************************************************)
(* Collision and goal detection                                            *)
(***************************************************************************)
\* dx * dx + dy * dy, on whole units
DistanceSquared(ax, ay, bx, by) ==
  LET dx == Units(ax - bx)
      dy == Units(ay - by)
  IN  dx * dx + dy * dy

shipRadius == shipWidth \div 2

\* a pre-filter radius that is too short: CollisionCriterion fails with it in
\* the place of maxCheckDistance
shortCheckDistance == shipRadius

\* ship.length + icebergsConfig.maxSize + 50
maxCheckDistance == shipLength + maxSize + 50 * PosScale

\* the body of the loop of checkCollisions for one iceberg: TRUE on a hit
HitsIceberg(cam, iceberg) ==
  LET distanceSquared == DistanceSquared(cam.x, cam.y, iceberg.x, iceberg.y)
      far == Units(maxCheckDistance)
  IN  /\ ~(distanceSquared > far * far)
      /\ Sqrt(distanceSquared * PosScale * PosScale) < shipRadius + iceberg.size

\* the guard of checkCollisions: `if (gameOver || gameWon) return;` (the simple
\* script, which has no gameWon, tests gameOver alone)
CollisionCheckSkipped(over, won) == over \/ won

\* checkCollisions run before ensureIcebergsGenerated: it walks the list as
\* it was when the tick began.  TickOrdering fails with it in the place of
\* CollisionDetected
CollisionBeforeGeneration(cam, list) ==
  \E i \in 1..Len(icebergs) : HitsIceberg(cam, icebergs[i])

\* checkCollisions past its guard: some iceberg of the list is hit
CollisionDetected(cam, list) ==
  \E i \in 1..Len(list) : HitsIceberg(cam, list[i])

\* the guard without its tests of the flags: SessionIrreversible fails with it
\* in the place of GoalCheckSkipped
GoalCheckUnguarded(over, won, g) == ~g.generated

\* the guard of checkGoalReached: `if (gameOver || gameWon || !goal.generated) return;`
GoalCheckSkipped(over, won, g) == over \/ won \/ ~g.generated

\* a goal test that counts the rim of the goal as reached: GoalCriterion
\* fails with it in the place of GoalReached
GoalReachedInclusive(cam, g) ==
  LET dx == Abs(cam.x - g.x)
      dy == Abs(cam.y - g.y)
  IN  /\ dx <= goalRadius
      /\ dy <= goalRadius
      /\ dx * dx + dy * dy <= goalRadius * goalRadius

\* checkGoalReached past its guard: Math.sqrt(dx * dx + dy * dy) <
\* goalConfig.radius, in hundredths; the squares are compared, and a point
\* outside the square around the goal is not squared at all
GoalReached(cam, g) ==
  LET dx == Abs(cam.x - g.x)
      dy == Abs(cam.y - g.y)
  IN  /\ dx < goalRadius
      /\ dy < goalRadius
      /\ dx * dx + dy * dy < goalRadius * goalRadius


(***************************************************************************)
(* Start port and goal (extended variant)                                  *)
(***************************************************************************)
\* offset + Math.random() * (extent - offset * 2), r the draw in 1/10000
AlongEdge(r, extent) == edgeOffset + r * ((extent - edgeOffset * 2) \div FracScale)

\* the switch of generateStartPort and of generateGoal: the point on `edge`
\* (0 top, 1 right, 2 bottom, 3 left) for the draw r
EdgePoint(edge, r) ==
  CASE edge = 0 -> [x |-> AlongEdge(r, worldWidth), y |-> edgeOffset]
    [] edge = 1 -> [x |-> worldWidth - edgeOffset, y |-> AlongEdge(r, worldHeight)]
    [] edge = 2 -> [x |-> AlongEdge(r, worldWidth), y |-> worldHeight - edgeOffset]
    [] edge = 3 -> [x |-> edgeOffset, y |-> AlongEdge(r, worldHeight)]

\* shipOffset = goalConfig.radius + 50
shipOffset == goalRadius + 50 * PosScale

\* (Math.random() - 0.5) * shipOffset * 0.5
CameraOffset(r) == Round((r - FracScale \div 2) * shipOffset, 2 * FracScale)

\* generateStartPort with the draws: edge, position along it, camera offsets
GenerateStartPort(edge, r, rx, ry) ==
  LET p == EdgePoint(edge, r)
  IN  [ startPort |-> [x |-> p.x, y |-> p.y, generated |-> TRUE],
        camera    |-> [x |-> p.x + CameraOffset(rx), y |-> p.y + CameraOffset(ry)] ]

\* the edge generateGoal takes the start port to be on (-1: none)
StartPortEdge(sp) ==
  IF ~sp.generated THEN -1
  ELSE IF sp.y <= edgeOffset + 10 * PosScale THEN 0
  ELSE IF sp.x >= worldWidth - edgeOffset - 10 * PosScale THEN 1
  ELSE IF sp.y >= worldHeight - edgeOffset - 10 * PosScale THEN 2
  ELSE IF sp.x <= edgeOffset + 10 * PosScale THEN 3
  ELSE -1

\* the edges the do-while loop of generateGoal can end with
GoalEdges(sp) == {edge \in 0..3 : ~(edge = StartPortEdge(sp) /\ sp.generated)}

\* generateGoal once its loop has ended with `edge`, for the draw r
GenerateGoal(edge, r) ==
  LET p == EdgePoint(edge, r)
  IN  [x |-> p.x, y |-> p.y, generated |-> TRUE]

(***************************************************************************)
(* Inputs                                                                  *)
(***************************************************************************)
\* Math.random() for the position along an edge, in 1/10000: both ends of
\* [0, 1) and the middle
EdgeDraws == {0, 5000, 9999}

\* the two Math.random() of the camera offset: the middle of both, and the
\* low end of the first with the high end of the second
OffsetDraws == {<<5000, 5000>>, <<0, 9999>>}

\* Math.random() for the position of the goal along its edge
GoalDraws == {0, 9999}

\* window.innerWidth x window.innerHeight
CanvasSizes == {[width |-> 1600, height |-> 1000], [width |-> 1200, height |-> 800]}

\* a window without area (a hidden frame reports innerWidth and innerHeight 0)
HiddenWindow == [width |-> 0, height |-> 0]

\* e.key: the four keys of `keys` and one key that is not a property of it
KeyNames == {"ArrowUp", "ArrowDown", "ArrowLeft", "ArrowRight", "Enter"}

NoKeys == [ArrowUp |-> FALSE, ArrowDown |-> FALSE, ArrowLeft |-> FALSE, ArrowRight |-> FALSE]

\* keys.hasOwnProperty(e.key)
IsArrowKey(key) == key \in {"ArrowUp", "ArrowDown", "ArrowLeft", "ArrowRight"}

\* a handler that sets the flag at keydown and at keyup alike, so that a
\* key once pressed stays pressed: TapLeavesNoTrace fails with it in the place
\* of SetKey
SetKeyLatched(k, key, value) ==
  [ ArrowUp    |-> key = "ArrowUp" \/ k.ArrowUp,
    ArrowDown  |-> key = "ArrowDown" \/ k.ArrowDown,
    ArrowLeft  |-> key = "ArrowLeft" \/ k.ArrowLeft,
    ArrowRight |-> key = "ArrowRight" \/ k.ArrowRight ]

\* keys[key] = value
SetKey(k, key, value) ==
  [ ArrowUp    |-> IF key = "ArrowUp" THEN value ELSE k.ArrowUp,
    ArrowDown  |-> IF key = "ArrowDown" THEN value ELSE k.ArrowDown,
    ArrowLeft  |-> IF key = "ArrowLeft" THEN value ELSE k.ArrowLeft,
    ArrowRight |-> IF key = "ArrowRight" THEN value ELSE k.ArrowRight ]

\* the button rectangle drawGameOver and drawWinScreen store
ButtonBounds(cv) ==
  [ x |-> cv.width \div 2 - buttonWidth \div 2,
    y |-> cv.height \div 2 + buttonOffsetY - buttonHeight \div 2,
    width |-> buttonWidth, height |-> buttonHeight ]

\* gameOverButton = null
NoButton == [x |-> 0, y |-> 0, width |-> 0, height |-> 0]

\* click positions: the canvas origin, and the lower right corner of the
\* button of each canvas size
ClickPoints ==
  {<<0, 0>>}
  \cup {<<ButtonBounds(cv).x + buttonWidth, ButtonBounds(cv).y + buttonHeight>> :
          cv \in CanvasSizes}

\* the test of the click handler on the stored rectangle
InsideButton(x, y, b) ==
  /\ x >= b.x
  /\ x <= b.x + b.width
  /\ y >= b.y
  /\ y <= b.y + b.height

(***************************************************************************)
(* Observer of key taps.  `tap` is a history variable: it follows a keydown *)
(* of an arrow key and the keyup of the same key that comes next for that   *)
(* key between two frames, and carries `shadow`, the key flags of the run   *)
(* in which those two events did not occur (every other key event is        *)
(* applied to it).  It is never read by a handler or by gameLoop.  The      *)
(* observer is off in Spec and SpecUnderway and on in SpecTaps.             *)
(***************************************************************************)
TapOff == [phase |-> "off", key |-> "", held |-> FALSE, shadow |-> NoKeys]

\* no tap is being followed
TapIdle == [phase |-> "idle", key |-> "", held |-> FALSE, shadow |-> NoKeys]

\* a frame or restartGame ends the interval the observer watches
TapCleared(t) == IF t.phase = "off" THEN t ELSE TapIdle

\* the observer at a keydown of `key`, k the flags before the handler ran:
\* `held` records whether the flag of the key was set already
TapOnKeyDown(t, key, k) ==
  IF t.phase = "off" \/ ~IsArrowKey(key) THEN t
  ELSE IF t.phase = "idle"
       THEN [phase |-> "down", key |-> key, held |-> k[key], shadow |-> k]
  ELSE IF t.phase = "down" /\ key = t.key THEN TapIdle
  ELSE [t EXCEPT !.shadow = SetKey(@, key, TRUE)]

\* the observer at a keyup of `key`
TapOnKeyUp(t, key, k) ==
  IF t.phase = "off" \/ ~IsArrowKey(key) \/ t.phase = "idle" THEN t
  ELSE IF t.phase = "down" /\ key = t.key THEN [t EXCEPT !.phase = "done"]
  ELSE [t EXCEPT !.shadow = SetKey(@, key, FALSE)]

(***************************************************************************)
(* Initial state: the script has run up to its last statement, the first   *)
(* call gameLoop(), which is the action Boot.                              *)
(***************************************************************************)
\* a reset that stops the ship and leaves its heading and rudder as they are:
\* ResetPostcondition fails with it in the place of InitShip
ShipOnlyStopped == [ship EXCEPT !.speed = 0, !.acceleration = 0]

\* the ship as the script declares it and as restartGame writes it
InitShip ==
  [rotation |-> initialRotation, speed |-> 0, acceleration |-> 0, rudderAngle |-> 0]

Ungenerated == [x |-> 0, y |-> 0, generated |-> FALSE]

InitCommon ==
  /\ horizon = MaxTicks
  /\ booted = FALSE
  /\ ticks = 0
  /\ lastTick = "none"
  /\ canvas \in CanvasSizes
  /\ keys = NoKeys
  /\ gameRunning = TRUE
  /\ gameOver = FALSE
  /\ gameWon = FALSE
  /\ ship = InitShip
  /\ currentCoal = maxCoal
  /\ totalDistance = 0
  /\ icebergs = << >>
  /\ loadedIcebergChunks = {}
  /\ gameOverButton = NoButton
  /\ frameRequested = FALSE
  /\ winTime = 0
  /\ tap = TapOff

\* part_001: camera at the origin, no start port, no goal
InitSimple ==
  /\ variant = "simple"
  /\ camera = [x |-> 0, y |-> 0]
  /\ startPort = Ungenerated
  /\ goal = Ungenerated

\* part_000: generateStartPort(); generateGoal();
InitExtended ==
  /\ variant = "extended"
  /\ \E edge \in 0..3, r \in EdgeDraws, o \in OffsetDraws :
       LET g == GenerateStartPort(edge, r, o[1], o[2])
       IN  /\ startPort = g.startPort
           /\ camera = g.camera
  /\ \E edge \in GoalEdges(startPort), r \in GoalDraws :
       goal = GenerateGoal(edge, r)

Init == InitCommon /\ (InitSimple \/ InitExtended)

(***************************************************************************)
(* Event handlers                                                          *)
(***************************************************************************)
\* events are delivered between frames, up to the last frame explored; none
\* is delivered while a call of gameLoop has not returned
Listening == booted /\ ticks < horizon /\ lastTick # "hung"

\* window 'resize': resizeCanvas
Resize ==
  /\ Listening
  /\ \E cv \in CanvasSizes \cup {HiddenWindow} : canvas' = cv
  /\ UNCHANGED << variant, horizon, booted, ticks, keys, gameRunning, gameOver, gameWon,
                  ship, camera, currentCoal, totalDistance, icebergs,
                  loadedIcebergChunks, startPort, goal, gameOverButton,
                  frameRequested, lastTick, winTime, tap >>

\* window 'keydown'
KeyDown ==
  /\ Listening
  /\ \E key \in KeyNames :
       /\ keys' = IF IsArrowKey(key) THEN SetKey(keys, key, TRUE) ELSE keys
       /\ tap' = TapOnKeyDown(tap, key, keys)
  /\ UNCHANGED << variant, horizon, booted, ticks, canvas, gameRunning, gameOver, gameWon,
                  ship, camera, currentCoal, totalDistance, icebergs,
                  loadedIcebergChunks, startPort, goal, gameOverButton,
                  frameRequested, lastTick, winTime >>

\* window 'keyup'
KeyUp ==
  /\ Listening
  /\ \E key \in KeyNames :
       /\ keys' = IF IsArrowKey(key) THEN SetKey(keys, key, FALSE) ELSE keys
       /\ tap' = TapOnKeyUp(tap, key, keys)
  /\ UNCHANGED << variant, horizon, booted, ticks, canvas, gameRunning, gameOver, gameWon,
                  ship, camera, currentCoal, totalDistance, icebergs,
                  loadedIcebergChunks, startPort, goal, gameOverButton,
                  frameRequested, lastTick, winTime >>

\* restartGame without its line `gameRunning = true`: RunningIffNotTerminal
\* fails with it in the place of RestartGame
RestartGameLeavesStopped ==
  /\ gameOver' = FALSE
  /\ gameWon' = FALSE
  /\ gameRunning' = gameRunning
  /\ keys' = NoKeys
  /\ ship' = InitShip
  /\ icebergs' = << >>
  /\ loadedIcebergChunks' = {}
  /\ IF variant = "extended"
     THEN /\ \E edge \in 0..3, r \in EdgeDraws, o \in OffsetDraws :
               LET g == GenerateStartPort(edge, r, o[1], o[2])
               IN  /\ startPort' = g.startPort
                   /\ camera' = g.camera
          /\ \E edge \in GoalEdges(startPort'), r \in GoalDraws :
               goal' = GenerateGoal(edge, r)
          /\ totalDistance' = 0
          /\ currentCoal' = maxCoal
          /\ winTime' = 0
     ELSE /\ camera' = [x |-> 0, y |-> 0]
          /\ UNCHANGED << startPort, goal, totalDistance, currentCoal, winTime >>
  /\ tap' = TapCleared(tap)
  /\ UNCHANGED << variant, horizon, booted, ticks, canvas, gameOverButton, frameRequested,
                  lastTick >>

\* restartGame; the extended variant draws a new start port and goal
RestartGame ==
  /\ gameOver' = FALSE
  /\ gameWon' = FALSE
  /\ gameRunning' = TRUE
  /\ keys' = NoKeys
  /\ ship' = InitShip
  /\ icebergs' = << >>
  /\ loadedIcebergChunks' = {}
  /\ IF variant = "extended"
     THEN /\ \E edge \in 0..3, r \in EdgeDraws, o \in OffsetDraws :
               LET g == GenerateStartPort(edge, r, o[1], o[2])
               IN  /\ startPort' = g.startPort
                   /\ camera' = g.camera
          /\ \E edge \in GoalEdges(startPort'), r \in GoalDraws :
               goal' = GenerateGoal(edge, r)
          /\ totalDistance' = 0
          /\ currentCoal' = maxCoal
          /\ winTime' = 0
     ELSE /\ camera' = [x |-> 0, y |-> 0]
          /\ UNCHANGED << startPort, goal, totalDistance, currentCoal, winTime >>
  /\ tap' = TapCleared(tap)
  /\ UNCHANGED << variant, horizon, booted, ticks, canvas, gameOverButton, frameRequested,
                  lastTick >>

\* a guard that only asks whether a button rectangle is stored:
\* RestartSurface fails with it in the place of ClickIgnored
ClickIgnoredWithoutButton == gameOverButton = NoButton

\* the guard of the click handler: it returns at once
ClickIgnored == (~gameOver /\ ~gameWon) \/ gameOverButton = NoButton

\* the click handler for a click at (x, y) relative to the canvas
ClickAt(x, y) ==
  IF ~ClickIgnored /\ InsideButton(x, y, gameOverButton)
  THEN RestartGame
  ELSE UNCHANGED vars

\* the listener is the canvas element's: a click reaches it at a point of
\* the element, which has the size resizeCanvas gave it
OnCanvas(x, y) == x \in 0..(canvas.width - 1) /\ y \in 0..(canvas.height - 1)

\* canvas 'click'
Click ==
  /\ Listening
  /\ \E p \in ClickPoints : OnCanvas(p[1], p[2]) /\ ClickAt(p[1], p[2])

(***************************************************************************)
(* gameLoop                                                                *)
(***************************************************************************)
\* milliseconds between two frames of a 60 Hz display (16.67, rounded)
FrameMillis == 17

\* the timestamp of the call gameLoop() that ends the script: undefined
\* (timestamps proper are not negative)
Undefined == -1

\* what currentTime and lastTime can be when deltaTime is computed: undefined,
\* and clock readings a frame, two frames and six frames apart
Timestamps == {Undefined, 0, FrameMillis, 2 * FrameMillis, 6 * FrameMillis}

\* Math.min((currentTime - lastTime) / 16.67, 2) in hundredths; not a number
\* when a timestamp is undefined (Math.min(NaN, 2) is NaN)
DeltaTime(currentTime, lastTime) ==
  IF currentTime = Undefined \/ lastTime = Undefined
  THEN [nan |-> TRUE, times |-> 0]
  ELSE [nan |-> FALSE,
        times |-> Min(((currentTime - lastTime) * PosScale * 100) \div 1667,
                      2 * PosScale)]

\* every deltaTime a call of gameLoop can compute
DeltaTimes == { DeltaTime(currentTime, lastTime) :
                  currentTime \in Timestamps, lastTime \in Timestamps }

\* performance.now() in the t-th call of gameLoop: the clock of a host that
\* delivers its frames at a steady rate, in milliseconds
PerformanceNow(t) == FrameMillis * t

\* a loop that a reset stops: the first frame after restartGame returns at
\* its first line; ResetRearmsLoop fails with it in the place of LoopReturns
LoopReturnsAfterReset == booted /\ loadedIcebergChunks = {}

\* a loop that returns as soon as the session has stopped: LoopNeverStops
\* fails with it in the place of LoopReturns
LoopReturnsOnceStopped == ~gameRunning

\* `if (!gameRunning && !gameOver && !gameWon) return;`
LoopReturns == ~gameRunning /\ ~gameOver /\ ~gameWon

\* an update block that runs whatever the flags: TerminalIdempotence fails
\* with it in the place of SessionActive
AlwaysActive == TRUE

\* `if (!gameOver && !gameWon)`: physics, generation and the checks run
SessionActive == ~gameOver /\ ~gameWon

\* the session state is GameOver or Won
Terminal == gameOver \/ gameWon

\* One call of gameLoop: the update block, then the drawing (of which the
\* stored button rectangle is state), then requestAnimationFrame.  lastTick
\* records the path the call took: "returned" at its first line, "update"
\* through the update block, "frozen" past it, and "hung" when the call never
\* leaves ensureIcebergsGenerated: updateShip has run, and nothing after it.
\* u, w and collided are the results of updateShip, ensureIcebergsGenerated
\* and checkCollisions, each computed once; the two checks only ever set
\* their flag.
GameLoop ==
  IF LoopReturns
  THEN /\ frameRequested' = FALSE
       /\ lastTick' = "returned"
       /\ UNCHANGED << gameRunning, gameOver, gameWon, ship, camera, currentCoal,
                       totalDistance, icebergs, loadedIcebergChunks, gameOverButton,
                       winTime >>
  ELSE /\ IF SessionActive
          THEN \E u \in {UpdateShip(deltaTime, keys, ship, camera, currentCoal,
                                      totalDistance) : deltaTime \in DeltaTimes} :
               /\ ship' = u.ship
               /\ camera' = u.camera
               /\ currentCoal' = u.currentCoal
               /\ totalDistance' = u.totalDistance
               /\ IF GenerationHangs(u.camera, canvas, loadedIcebergChunks)
                  THEN /\ lastTick' = "hung"
                       /\ UNCHANGED << gameRunning, gameOver, gameWon, icebergs,
                                       loadedIcebergChunks, winTime >>
                  ELSE \E w \in {EnsureIcebergsGenerated(u.camera, canvas,
                                   [icebergs |-> icebergs, loaded |-> loadedIcebergChunks])} :
                       \E collided \in {~CollisionCheckSkipped(gameOver, gameWon)
                                          /\ CollisionDetected(u.camera, w.icebergs)} :
                       LET won == /\ variant = "extended"
                                  /\ ~GoalCheckSkipped(gameOver \/ collided, gameWon, goal)
                                  /\ GoalReached(u.camera, goal)
                       IN  /\ icebergs' = w.icebergs
                           /\ loadedIcebergChunks' = w.loaded
                           /\ gameOver' = (gameOver \/ collided)
                           /\ gameWon' = (gameWon \/ won)
                           /\ gameRunning' = (gameRunning /\ ~collided /\ ~won)
                           /\ winTime' = IF won THEN PerformanceNow(ticks + 1) ELSE winTime
                           /\ lastTick' = "update"
          ELSE /\ lastTick' = "frozen"
               /\ UNCHANGED << gameRunning, gameOver, gameWon, ship, camera,
                               currentCoal, totalDistance, icebergs,
                               loadedIcebergChunks, winTime >>
       /\ gameOverButton' = IF gameOver' \/ gameWon' THEN ButtonBounds(canvas)
                            ELSE gameOverButton
       /\ frameRequested' = (lastTick' # "hung")

\* the call gameLoop() that ends the script
Boot ==
  /\ ~booted
  /\ booted' = TRUE
  /\ ticks' = ticks + 1
  /\ GameLoop
  /\ tap' = TapCleared(tap)
  /\ UNCHANGED << variant, horizon, canvas, keys, startPort, goal >>

\* a frame callback scheduled by requestAnimationFrame
Frame ==
  /\ booted
  /\ frameRequested
  /\ ticks < horizon
  /\ ticks' = ticks + 1
  /\ GameLoop
  /\ tap' = TapCleared(tap)
  /\ UNCHANGED << variant, horizon, booted, canvas, keys, startPort, goal >>

Next == Boot \/ Frame \/ KeyDown \/ KeyUp \/ Resize \/ Click

Spec == Init /\ [][Next]_vars

(***************************************************************************)
(* A session under way.  The speed limits, an empty bunker, an iceberg     *)
(* ahead and the goal ahead are thousands of frames away from the start of *)
(* a session, so this second specification starts from snapshots of a      *)
(* session in progress and runs the same handlers and the same frames.     *)
(* A snapshot is the state after a frame that went through the update      *)
(* block: no key held, no terminal flag set, a frame requested.            *)
(***************************************************************************)
\* ship.speed after a frame: at rest, creeping, and next to both limits
UnderwaySpeeds ==
  { -(maxReverseSpeed - 1), -friction, 0, 1, maxSpeed - accelerationPower, maxSpeed - 1 }

\* ship.acceleration after a frame
UnderwayAccelerations == {-accelerationPower, 0, accelerationPower}

\* the speeds updateShip can leave behind together with an acceleration: the
\* speed was in (-maxReverseSpeed, maxSpeed) before the frame and the frame
\* added the acceleration, or applied friction when there was none
ReachableMotion(speed, acceleration) ==
  LET low  == -(maxReverseSpeed - 1)
      high == maxSpeed - 1
  IN  CASE acceleration > 0 -> speed >= low + acceleration /\ speed <= high
        [] acceleration < 0 -> speed >= low /\ speed <= high + acceleration
        [] OTHER -> speed >= low + friction /\ speed <= high - friction

\* ship.rudderAngle after a frame: centred, hard over, and the last step
\* short of the centre on the way back from hard over
UnderwayRudders == {0, maxRudderAngle % rudderSpeed, maxRudderAngle}

\* window size when the snapshot is taken
UnderwayCanvas == [width |-> 1600, height |-> 1000]

\* the start port of the snapshots of the extended script: the middle of the
\* top edge, the camera on it
UnderwayStart == GenerateStartPort(0, 5000, 5000, 5000)

\* their goal: the middle of the right edge
UnderwayGoal == GenerateGoal(1, 5000)

\* the iceberg the ship is heading for: the first of chunk (-1, -1), next to
\* the origin, and the first of chunk (9, 1), next to the start port
BergAhead(v) == IF v = "simple" THEN Candidate(-1, -1, 0) ELSE Candidate(9, 1, 0)

\* distance kept from what lies ahead: two world units
Clearance == 2 * PosScale

\* the ship heads up the screen (initialRotation) with the iceberg straight
\* ahead, Clearance short of touching it, or with the goal straight ahead
BergCamera(v) ==
  LET b == BergAhead(v)
  IN  [x |-> b.x, y |-> b.y + shipRadius + b.size + Clearance]

\* distance kept from the rim of the goal: what the ship covers in one tick
\* when it coasts from maxSpeed - accelerationPower
GoalClearance == maxSpeed - accelerationPower - friction

GoalCamera == [x |-> UnderwayGoal.x, y |-> UnderwayGoal.y + goalRadius + GoalClearance]

\* currentCoal of a snapshot: empty, the last of it, and most of it left
UnderwayCoal == {0, 200, 3000000}

\* the world after the first view of the session, from `first`
FirstView(first) ==
  EnsureIcebergsGenerated(first, UnderwayCanvas, [icebergs |-> << >>, loaded |-> {}])

\* the world of a snapshot: the chunks of the first view and of the view
\* from the camera (chunks passed on the way are left out)
UnderwayWorld(first) ==
  \E w0 \in {FirstView(first)} :
  \E w \in {EnsureIcebergsGenerated(camera, UnderwayCanvas, w0)} :
    icebergs = w.icebergs /\ loadedIcebergChunks = w.loaded

UnderwaySnapshot ==
  /\ horizon = MaxTicks
  /\ booted = TRUE
  /\ ticks = 0
  /\ lastTick = "update"
  /\ canvas = UnderwayCanvas
  /\ keys = NoKeys
  /\ gameRunning = TRUE
  /\ gameOver = FALSE
  /\ gameWon = FALSE
  /\ gameOverButton = NoButton
  /\ frameRequested = TRUE
  /\ winTime = 0
  /\ \E speed \in UnderwaySpeeds, acceleration \in UnderwayAccelerations,
        rudderAngle \in UnderwayRudders :
       /\ ReachableMotion(speed, acceleration)
       /\ ship = [rotation |-> initialRotation, speed |-> speed,
                  acceleration |-> acceleration, rudderAngle |-> rudderAngle]
  /\ \/ /\ variant = "simple"
        /\ startPort = Ungenerated
        /\ goal = Ungenerated
        /\ camera = BergCamera("simple")
        /\ currentCoal = maxCoal
        /\ totalDistance = 0
        /\ UnderwayWorld([x |-> 0, y |-> 0])
     \/ /\ variant = "extended"
        /\ startPort = UnderwayStart.startPort
        /\ goal = UnderwayGoal
        /\ camera \in {BergCamera("extended"), GoalCamera}
        /\ currentCoal \in UnderwayCoal
        /\ totalDistance = maxCoal - currentCoal
        /\ UnderwayWorld(UnderwayStart.camera)

InitUnderway == UnderwaySnapshot /\ tap = TapOff

NextUnderway == Frame \/ KeyDown \/ KeyUp \/ Resize \/ Click

SpecUnderway == InitUnderway /\ [][NextUnderway]_vars

(***************************************************************************)
(* The same session under way with the observer of key taps switched on.   *)
(* Its snapshots: the simple script with the ship coasting at speed toward *)
(* the iceberg, the extended script with the ship at rest, coal left.      *)
(***************************************************************************)
InitTaps ==
  /\ UnderwaySnapshot
  /\ ship.speed = (IF variant = "simple" THEN maxSpeed - accelerationPower ELSE 0)
  /\ ship.acceleration = 0
  /\ ship.rudderAngle = 0
  /\ camera = BergCamera(variant)
  /\ currentCoal >= maxCoal \div 2
  /\ tap = TapIdle

SpecTaps == InitTaps /\ [][NextUnderway]_vars

\* the step of the counter a requested frame callback makes when it is
\* called: Frame's guard and its count, without the work of gameLoop (which
\* puts no condition on the state it starts from)
FrameDue ==
  /\ booted
  /\ frameRequested
  /\ ticks < horizon
  /\ ticks' = ticks + 1

\* The frame loop keeps its promise: a callback handed to
\* requestAnimationFrame is called in the end (the browser calls it before
\* the next repaint), however many events arrive before it.
SpecFrames == InitUnderway /\ [][NextUnderway]_vars /\ WF_ticks(FrameDue)

(***************************************************************************)
(* A voyage to the end of the coal.  The player keeps Up held and leaves   *)
(* the rudder keys and the window alone; Down and Enter are pressed and    *)
(* released at will.  The snapshots are of the extended script in open     *)
(* water (no iceberg within 200 units of the lane sailed), under           *)
(* acceleration with the last of the coal in the bunkers.                  *)
(***************************************************************************)
\* where the voyage starts, heading up the screen
OpenWater == [x |-> 3500 * PosScale, y |-> 7250 * PosScale]

\* ship.speed after a frame under acceleration: just set off, and at the
\* forward limit
VoyageSpeeds == {accelerationPower, maxSpeed - friction}

\* the last of the coal: less than one frame burns at full speed
VoyageCoal == {200}

\* Up held, the rudder keys not
Steady == keys.ArrowUp /\ ~keys.ArrowLeft /\ ~keys.ArrowRight

InitVoyage ==
  /\ variant = "extended"
  /\ horizon = MaxVoyageTicks
  /\ booted = TRUE
  /\ ticks = 0
  /\ lastTick = "update"
  /\ canvas = UnderwayCanvas
  /\ keys = [NoKeys EXCEPT !.ArrowUp = TRUE]
  /\ gameRunning = TRUE
  /\ gameOver = FALSE
  /\ gameWon = FALSE
  /\ gameOverButton = NoButton
  /\ frameRequested = TRUE
  /\ winTime = 0
  /\ tap = TapOff
  /\ \E speed \in VoyageSpeeds :
       ship = [rotation |-> initialRotation, speed |-> speed,
               acceleration |-> accelerationPower, rudderAngle |-> 0]
  /\ startPort = UnderwayStart.startPort
  /\ goal = UnderwayGoal
  /\ camera = OpenWater
  /\ currentCoal \in VoyageCoal
  /\ totalDistance = maxCoal - currentCoal
  /\ UnderwayWorld(UnderwayStart.camera)

NextVoyage == Frame \/ (KeyDown /\ Steady') \/ (KeyUp /\ Steady')

SpecVoyage == InitVoyage /\ [][NextVoyage]_vars /\ WF_ticks(FrameDue)

(***************************************************************************)
(* Properties                                                              *)
(***************************************************************************)
\* a step that is one call of gameLoop
IsTick == ticks' # ticks

\* a step that is one call of gameLoop which went through the update block
\* and came out of it
IsUpdate == IsTick /\ SessionActive /\ lastTick' = "update"

\* a step that is restartGame: it leaves a terminal state for a fresh session
IsRestart ==
  /\ Terminal
  /\ ~Terminal'
  /\ ticks' = ticks
  /\ gameRunning'
  /\ loadedIcebergChunks' = {}

\* C1: once the session is GameOver or Won, every step that leaves it so,
\* the gameLoop ticks with any keys held and any window size among them,
\* leaves the ship (speed, acceleration, rudder angle, heading), the camera,
\* the coal, the iceberg list and the set of loaded chunks as they are.
TerminalIdempotence ==
  [][(Terminal /\ Terminal') =>
       UNCHANGED << ship, camera, currentCoal, icebergs, loadedIcebergChunks >>]_vars

\* a tick has run in a terminal state with the Up key held
FrozenTickSeen == Terminal /\ lastTick = "frozen" /\ keys.ArrowUp

\* C2: in every reachable state -maxReverseSpeed <= ship.speed <= maxSpeed.
SpeedBounds == ship.speed >= -maxReverseSpeed /\ ship.speed <= maxSpeed

\* a tick has pushed the speed to maxSpeed under forward acceleration:
\* friction has taken it back by one step
SpeedLimitHit ==
  /\ ticks > 0
  /\ lastTick = "update"
  /\ ship.acceleration = accelerationPower
  /\ ship.speed = maxSpeed - friction

\* the point the safe zone is claimed to surround
ClaimedSafeCentre ==
  IF variant = "simple" THEN [x |-> 0, y |-> 0] ELSE [x |-> startPort.x, y |-> startPort.y]

\* C3: no iceberg of the list lies closer than startSafeRadius to the world
\* origin (simple script) or to the start port (extended script).
SafeZone ==
  \A i \in 1..Len(icebergs) :
    DistanceSquared(icebergs[i].x, icebergs[i].y, ClaimedSafeCentre.x, ClaimedSafeCentre.y)
      >= startSafeRadius * startSafeRadius

\* C4: the first tick of a session (at the start and after a reset: no chunk
\* is loaded yet), run with no key held, never ends in GameOver.
FirstTickSafe ==
  [][(loadedIcebergChunks = {} /\ keys = NoKeys /\ IsTick) => ~gameOver']_vars

\* C5: gameOver and gameWon are never both true; a tick keeps a flag that is
\* set and keeps the other one clear; between ticks the flags change only by
\* restartGame, which clears them both.
SessionIrreversible ==
  [][ /\ ~(gameOver' /\ gameWon')
      /\ IsTick => /\ (gameOver => (gameOver' /\ ~gameWon'))
                   /\ (gameWon => (gameWon' /\ ~gameOver'))
      /\ ~IsTick => \/ (gameOver' = gameOver /\ gameWon' = gameWon)
                    \/ IsRestart ]_vars

\* a tick has run in the Won state and left it Won
WonStays == gameWon /\ ~gameOver /\ lastTick = "frozen"

\* C6 as stated: a call of gameLoop in a terminal state requests no further
\* animation frame.
LoopStopsWhenTerminal == [][(Terminal /\ IsTick) => ~frameRequested']_vars

\* C6 as the scripts behave: every call of gameLoop that comes to its end has
\* gone past its first line and has requested the next frame, in terminal
\* states as in the running one.
LoopNeverStops ==
  (booted /\ lastTick # "hung") => (frameRequested /\ lastTick # "returned")

\* a call of gameLoop in a terminal state has requested the next frame
FrameRequestedWhenTerminal == Terminal /\ lastTick = "frozen" /\ frameRequested

\* the edge lines of the world rectangle: 0 top, 1 right, 2 bottom, 3 left
OnEdgeLine(p, edge) ==
  CASE edge = 0 -> p.y = edgeOffset
    [] edge = 1 -> p.x = worldWidth - edgeOffset
    [] edge = 2 -> p.y = worldHeight - edgeOffset
    [] edge = 3 -> p.x = edgeOffset

\* a point where two edge lines meet
AtCorner(p) == Cardinality({edge \in 0..3 : OnEdgeLine(p, edge)}) > 1

\* C7: the goal lies on another edge than the start port.  Corner points lie
\* on two edge lines and are left out.
GoalOnOtherEdge ==
  (startPort.generated /\ goal.generated /\ ~AtCorner(startPort) /\ ~AtCorner(goal)) =>
    ~\E edge \in 0..3 : OnEdgeLine(startPort, edge) /\ OnEdgeLine(goal, edge)

\* C8: in the extended script currentCoal stays within [0, maxCoal] and
\* never increases, except that restartGame sets it back to maxCoal.
CoalMonotone ==
  [][variant = "extended" =>
       /\ currentCoal' >= 0
       /\ currentCoal' <= maxCoal
       /\ (currentCoal' > currentCoal => (IsRestart /\ currentCoal' = maxCoal))]_vars

\* a tick that started with coal and under acceleration has burnt the last
\* of the coal
CoalRunsOut ==
  /\ variant = "extended"
  /\ ticks > 0
  /\ currentCoal = 0
  /\ ship.acceleration # 0

\* C9: in the extended script a tick of the update block that starts with
\* currentCoal = 0 brings a non-zero speed strictly closer to zero without
\* changing its sign, and leaves a zero speed at zero, whatever keys are held.
DepletedCoalGating ==
  [][(variant = "extended" /\ currentCoal = 0 /\ SessionActive /\ IsTick) =>
       /\ (ship.speed = 0 => ship'.speed = 0)
       /\ (ship.speed > 0 => (ship'.speed >= 0 /\ ship'.speed < ship.speed))
       /\ (ship.speed < 0 => (ship'.speed <= 0 /\ ship'.speed > ship.speed))]_vars

\* the ship has sailed on for three world units and more with the bunkers
\* empty, and the Up key is held
CoastingOnEmpty ==
  /\ variant = "extended"
  /\ currentCoal = 0
  /\ totalDistance >= maxCoal + 3 * PosScale
  /\ keys.ArrowUp
  /\ ship.speed > 0

\* the exact test on one iceberg, without the pre-filter and without the
\* square root: distance^2 < (ship.width / 2 + iceberg.size)^2
Touches(cam, iceberg) ==
  LET reach == shipWidth \div 2 + iceberg.size
  IN  DistanceSquared(cam.x, cam.y, iceberg.x, iceberg.y)
        < Ceil(reach * reach, PosScale * PosScale)

\* C10: a tick of the update block ends in GameOver exactly when some iceberg
\* of the list is closer to the ship's new position than ship.width / 2 +
\* iceberg.size; the pre-filter hides no such iceberg.
CollisionCriterion ==
  [][IsUpdate =>
       (gameOver' <=> \E i \in 1..Len(icebergs') : Touches(camera', icebergs'[i]))]_vars

\* the ship has run into an iceberg while moving
CollisionUnderWay == gameOver /\ lastTick = "update" /\ ship.speed # 0

\* the distance test of the goal, by the square root: the ship at `cam` is
\* closer to the goal than `radius` (hundredths)
NearerThan(cam, g, radius) ==
  LET dx == Abs(cam.x - g.x)
      dy == Abs(cam.y - g.y)
  IN  /\ dx <= radius
      /\ dy <= radius
      /\ Sqrt(dx * dx + dy * dy) < radius

\* C11: in the extended script a tick of the update block that detects no
\* collision, with the goal generated, ends Won exactly when the ship's new
\* position is closer to the goal than goalRadius; that tick stores the time
\* of the clock in winTime, and no tick changes winTime afterwards.
GoalCriterion ==
  [][(variant = "extended" /\ IsTick) =>
       /\ (IsUpdate /\ ~gameOver' /\ goal.generated) =>
             (gameWon' <=> NearerThan(camera', goal, goalRadius))
       /\ (SessionActive /\ gameWon') => winTime' = PerformanceNow(ticks')
       /\ gameWon => winTime' = winTime]_vars

\* a later tick has run in the Won state and winTime still holds the time
\* of the tick that reached the goal
WinTimeKept ==
  /\ gameWon
  /\ lastTick = "frozen"
  /\ ticks > 1
  /\ winTime = PerformanceNow(ticks - 1)

\* what a session consists of: everything but the window, the keys, the
\* stored button rectangle and the position in the frame loop
SessionVars ==
  << gameRunning, gameOver, gameWon, ship, camera, currentCoal, totalDistance,
     icebergs, loadedIcebergChunks, startPort, goal, winTime >>

\* C12: a step between two ticks that changes the session in a terminal
\* state (restartGame) leaves it Running with both terminal flags clear,
\* the ship at rest with the rudder centred and heading -PI/2, no iceberg and
\* no loaded chunk; in the extended script the coal is at maxCoal and start
\* port and goal are generated anew on edge lines with the camera next to the
\* start port, in the simple script the camera is at the origin.
ResetPostcondition ==
  [][(Terminal /\ ~IsTick /\ SessionVars' # SessionVars) =>
       /\ gameRunning'
       /\ ~gameOver'
       /\ ~gameWon'
       /\ ship' = [rotation |-> -(Pi \div 2), speed |-> 0, acceleration |-> 0,
                   rudderAngle |-> 0]
       /\ icebergs' = << >>
       /\ loadedIcebergChunks' = {}
       /\ IF variant = "extended"
          THEN /\ currentCoal' = maxCoal
               /\ startPort'.generated
               /\ goal'.generated
               /\ \E edge \in 0..3 : OnEdgeLine(startPort', edge)
               /\ \E edge \in 0..3 : OnEdgeLine(goal', edge)
               /\ 4 * Abs(camera'.x - startPort'.x) <= shipOffset
               /\ 4 * Abs(camera'.y - startPort'.y) <= shipOffset
          ELSE camera' = [x |-> 0, y |-> 0]]_vars

\* a reset has taken place: the session is Running again with the ship as
\* declared, no key held and nothing generated yet, and the button of the
\* terminal state is still stored
ResetDone ==
  /\ gameRunning
  /\ ~Terminal
  /\ gameOverButton # NoButton
  /\ loadedIcebergChunks = {}
  /\ ship.rotation = initialRotation
  /\ ship.rudderAngle = 0
  /\ keys = NoKeys

\* no two entries of the list are the same iceberg
NoDuplicate(list) ==
  \A i, j \in 1..Len(list) : i < j => list[i] # list[j]

\* C13: after a tick of the update block another call of
\* ensureIcebergsGenerated at the same camera position, with the same window
\* or with any window whose chunks lie within those of the same one, adds no
\* iceberg and no chunk key; a tick whose viewport is already covered leaves
\* list and set as they are; and the list never holds an iceberg twice.
IdempotentGeneration ==
  [][IsUpdate =>
       /\ \A cv \in CanvasSizes :
            ViewportChunks(camera', cv) \subseteq ViewportChunks(camera', canvas) =>
              \E w \in {EnsureIcebergsGenerated(camera', cv,
                          [icebergs |-> icebergs', loaded |-> loadedIcebergChunks'])} :
                w.icebergs = icebergs' /\ w.loaded = loadedIcebergChunks'
       /\ ViewportChunks(camera', canvas) \subseteq loadedIcebergChunks =>
            (icebergs' = icebergs /\ loadedIcebergChunks' = loadedIcebergChunks)
       /\ NoDuplicate(icebergs')]_vars

\* a second tick of a session has run with a viewport that lies within the
\* chunks loaded before it, and there are icebergs to duplicate
SecondCallSeen ==
  /\ ticks = 2
  /\ lastTick = "update"
  /\ Len(icebergs) > 0
  /\ ViewportChunks(camera, canvas) \subseteq loadedIcebergChunks
  /\ ViewportChunks(camera, canvas) # loadedIcebergChunks

\* the chunk an iceberg lies in
ChunkOf(iceberg) ==
  << Floor(iceberg.x, icebergGridSize), Floor(iceberg.y, icebergGridSize) >>

\* the icebergs of the list that lie in a chunk, in the order of the list
InChunk(list, chunk) == SelectSeq(list, LAMBDA iceberg : ChunkOf(iceberg) = chunk)

\* C14: after every tick of the update block the icebergs of each loaded
\* chunk are, in order and field by field, what the generation loop yields
\* for that chunk and one of the window sizes on an empty list: they depend
\* on the chunk and the viewport area alone, whatever the session, the frame,
\* the camera position and the chunks generated before.
DeterministicGeneration ==
  [][IsUpdate =>
       \A chunk \in loadedIcebergChunks' :
         \E cv \in CanvasSizes :
           InChunk(icebergs', chunk)
             = ChunkLoop(chunk[1], chunk[2], 0, ExpectedCount(cv), << >>)]_vars

\* chunks have been generated in a second session: a tick has run after a
\* reset, which the stored button of the earlier terminal state shows
GeneratedAfterReset ==
  /\ ticks = 2
  /\ lastTick = "update"
  /\ gameOverButton # NoButton
  /\ ~Terminal
  /\ Len(icebergs) > 0

\* the point (x, y) lies in the stored button rectangle, borders included
OnStoredButton(x, y) ==
  /\ gameOverButton # NoButton
  /\ x - gameOverButton.x \in 0..gameOverButton.width
  /\ y - gameOverButton.y \in 0..gameOverButton.height

\* C15: what the click handler does with a click at any of the click points:
\* in a terminal state with the point on the stored button it resets the
\* session; in a terminal state with the point elsewhere, and in the Running
\* state with the point anywhere, a left-over button rectangle included, it
\* changes nothing.
RestartSurface ==
  [][\A p \in ClickPoints :
       ClickAt(p[1], p[2]) =>
         IF Terminal /\ OnStoredButton(p[1], p[2])
         THEN ~Terminal' /\ gameRunning' /\ loadedIcebergChunks' = {} /\ keys' = NoKeys
         ELSE UNCHANGED vars]_vars

\* the session is Running with a key held, clicks are still delivered, and a
\* click point lies on the button rectangle an earlier terminal state left
LeftOverButton ==
  /\ ~Terminal
  /\ keys.ArrowUp
  /\ ticks < MaxTicks
  /\ \E p \in ClickPoints : OnStoredButton(p[1], p[2])

\* C16: a tick of the update block is one step, with no key or window event
\* inside it; when it ends the chunks of the viewport at the ship's new
\* position are loaded; an iceberg of the list as the tick leaves it, the
\* chunks of this tick included, that touches the ship at its new position
\* makes the tick end in GameOver and not in Won, the goal being reached or
\* not; a tick that ends in Won has the new position within the goal; and
\* the drawing that follows the checks in the same tick stores the restart
\* button of the terminal state they set.
TickOrdering ==
  [][IsUpdate =>
       /\ keys' = keys
       /\ canvas' = canvas
       /\ ViewportChunks(camera', canvas) \subseteq loadedIcebergChunks'
       /\ \A i \in 1..Len(icebergs') :
            Touches(camera', icebergs'[i]) => (gameOver' /\ ~gameWon')
       /\ gameWon' => (~gameOver' /\ NearerThan(camera', goal, goalRadius))
       /\ (gameOver' \/ gameWon') => gameOverButton' # NoButton]_vars

\* a tick has found the ship both on an iceberg and within the goal, and the
\* session is GameOver
CollisionBeatsGoal ==
  /\ variant = "extended"
  /\ lastTick = "update"
  /\ gameOver
  /\ ~gameWon
  /\ goal.generated
  /\ NearerThan(camera, goal, goalRadius)

\* C17 as stated: whenever a keydown of an arrow key and then a keyup of the
\* same key have been delivered between two ticks, the key flags are those of
\* the run in which the two events did not occur.
AnyTapLeavesNoTrace == tap.phase = "done" => keys = tap.shadow

\* C17 for a key that was up: a tick of the update block computes ship,
\* camera and coal from the state and the four flags as they stand when it
\* starts, and leaves the flags alone; a key event changes nothing but
\* flags; and once a keydown of an arrow key whose flag was clear and, as the
\* next event of that key, its keyup have been delivered between two ticks,
\* the flags are those of the run in which the two events did not occur, up
\* to the next tick, whatever other key events come in between or after.
TapLeavesNoTrace ==
  [][ /\ (tap'.phase = "done" /\ ~tap'.held) => keys' = tap'.shadow
      /\ (~IsTick /\ keys' # keys /\ ~(Terminal /\ ~Terminal')) =>
            UNCHANGED << SessionVars, canvas, gameOverButton, frameRequested >>
      /\ (IsTick /\ SessionActive) =>
            \E u \in {UpdateShip(DeltaTime(FrameMillis, 0), keys, ship, camera,
                                  currentCoal, totalDistance)} :
              /\ keys' = keys
              /\ ship' = u.ship
              /\ camera' = u.camera
              /\ currentCoal' = u.currentCoal ]_vars

\* between the first and the second tick an arrow key that was up has been
\* pressed and released again
TapSeen ==
  /\ ticks = 1
  /\ tap.phase = "done"
  /\ ~tap.held
  /\ keys = tap.shadow

EveryTickCompletes == lastTick # "hung"

\* C20: in the extended script, with the bunkers empty and the ship moving
\* forward faster than one step of braking and friction, a tick with Down held
\* and Up released takes accelerationPower off the speed (friction comes on
\* top): the ship still brakes.
BrakingOnEmpty ==
  [][(/\ variant = "extended"
      /\ currentCoal = 0
      /\ IsTick /\ SessionActive
      /\ keys.ArrowDown /\ ~keys.ArrowUp
      /\ ship.speed > accelerationPower + friction)
       => ship'.speed <= ship.speed - accelerationPower]_vars

\* restartGame has run and gameLoop has not been called since: nothing is
\* generated (every call that leaves the update block loads the chunks of
\* the viewport, and only restartGame empties the set)
AwaitingFirstTick == booted /\ loadedIcebergChunks = {} /\ lastTick # "hung"

\* restartGame written so that it starts the loop itself, as the script does
\* at its end: the reset is followed at once by a call of gameLoop
ResetCallsGameLoop == Terminal /\ ~Terminal' /\ ticks' = ticks + 1

\* C21: restartGame does not call gameLoop and leaves the frame that is
\* already requested as it is; that frame is called in the end, runs
\* updateShip again, and with Up held on it the ship sets off at
\* accelerationPower.
ResetRearmsLoop ==
  /\ [][IsRestart => (frameRequested /\ frameRequested' /\ lastTick' = lastTick
                        /\ ~ResetCallsGameLoop)]_vars
  /\ [][(AwaitingFirstTick /\ IsTick) =>
          /\ lastTick' \in {"update", "hung"}
          /\ ship' = UpdateShip(DeltaTime(FrameMillis, 0), keys, InitShip, camera, currentCoal,
                                totalDistance).ship
          /\ keys.ArrowUp => ship'.speed = accelerationPower]_vars
  /\ \A n \in 0..(MaxTicks - 1) :
        (AwaitingFirstTick /\ ticks = n) ~> (ticks = n + 1)

\* after a reset the ship is under way again with Up held
UnderWayAfterReset ==
  /\ gameOverButton # NoButton
  /\ ~Terminal
  /\ lastTick = "update"
  /\ keys.ArrowUp
  /\ ship.speed = accelerationPower
  /\ ship.rotation = initialRotation

\* the edges of the viewport rectangle centred on the camera (hundredths)
ViewLeft(cam, cv) == cam.x - (cv.width * PosScale) \div 2
ViewRight(cam, cv) == cam.x + (cv.width * PosScale) \div 2
ViewTop(cam, cv) == cam.y - (cv.height * PosScale) \div 2
ViewBottom(cam, cv) == cam.y + (cv.height * PosScale) \div 2

\* the world rectangle of chunk c, [c * 500, (c + 1) * 500) both ways, has a
\* point in common with the viewport rectangle
Overlaps(c, cam, cv) ==
  /\ c[1] * icebergGridSize <= ViewRight(cam, cv)
  /\ (c[1] + 1) * icebergGridSize > ViewLeft(cam, cv)
  /\ c[2] * icebergGridSize <= ViewBottom(cam, cv)
  /\ (c[2] + 1) * icebergGridSize > ViewTop(cam, cv)

\* chunk c overlaps the viewport, or begins less than one chunk beyond its
\* right or lower edge
Covered(c, cam, cv) ==
  /\ (c[1] - 1) * icebergGridSize < ViewRight(cam, cv)
  /\ (c[1] + 1) * icebergGridSize > ViewLeft(cam, cv)
  /\ (c[2] - 1) * icebergGridSize < ViewBottom(cam, cv)
  /\ (c[2] + 1) * icebergGridSize > ViewTop(cam, cv)

\* the chunks around the viewport, two more each way than any the call visits
ChunksAround(cam, cv) ==
  { <<chunkX, chunkY>> :
      chunkX \in (Floor(ViewLeft(cam, cv), icebergGridSize) - 2)
                   ..(Floor(ViewRight(cam, cv), icebergGridSize) + 3),
      chunkY \in (Floor(ViewTop(cam, cv), icebergGridSize) - 2)
                   ..(Floor(ViewBottom(cam, cv), icebergGridSize) + 3) }

\* C22 as the spec states it: a tick that leaves the update block has every
\* chunk that overlaps the viewport loaded, and has added no chunk that does
\* not overlap it.
ViewportCoverageExact ==
  [][IsUpdate =>
       /\ \A c \in ChunksAround(camera', canvas) :
             Overlaps(c, camera', canvas) => c \in loadedIcebergChunks'
       /\ \A c \in loadedIcebergChunks' \ loadedIcebergChunks :
             Overlaps(c, camera', canvas)]_vars

\* C22 as the scripts behave: a tick that leaves the update block has every
\* chunk loaded that overlaps the viewport or begins less than one chunk
\* beyond its right or lower edge (Math.ceil on the far edges), and has added
\* no other chunk.
ViewportCoverage ==
  [][IsUpdate =>
       /\ \A c \in ChunksAround(camera', canvas) :
             Covered(c, camera', canvas) => c \in loadedIcebergChunks'
       /\ \A c \in loadedIcebergChunks' \ loadedIcebergChunks :
             Covered(c, camera', canvas)]_vars

\* the first call of gameLoop has loaded exactly the chunks it visits for
\* the window and the camera as they still are, and one of them lies wholly
\* beyond the viewport
ChunkBeyondViewport ==
  /\ ticks = 1
  /\ lastTick = "update"
  /\ loadedIcebergChunks # {}
  /\ \A c \in loadedIcebergChunks : Covered(c, camera, canvas)
  /\ \E c \in loadedIcebergChunks : ~Overlaps(c, camera, canvas)

\* C23: the acceleration always lies in [-accelerationPower,
\* accelerationPower]; a tick of the update block that starts with coal (any
\* such tick of the simple script) sets it to accelerationPower with Up held,
\* Down held or not, else to -accelerationPower with Down held, and else
\* moves it toward zero by accelerationDecay, stopping at zero.
AccelerationRule ==
  /\ [](ship.acceleration \in (-accelerationPower)..accelerationPower)
  /\ [][(IsTick /\ SessionActive /\ (variant = "simple" \/ currentCoal > 0)) =>
          IF keys.ArrowUp THEN ship'.acceleration = accelerationPower
          ELSE IF keys.ArrowDown THEN ship'.acceleration = -accelerationPower
          ELSE /\ Abs(ship'.acceleration) =
                    (IF Abs(ship.acceleration) > accelerationDecay
                     THEN Abs(ship.acceleration) - accelerationDecay ELSE 0)
               /\ ship'.acceleration * ship.acceleration >= 0]_vars

\* next to its reverse limit the ship has gained accelerationPower in one
\* tick, and Up and Down are both held
UpBeatsDown ==
  /\ ticks = 1
  /\ lastTick = "update"
  /\ keys.ArrowUp /\ keys.ArrowDown
  /\ ship.acceleration = accelerationPower
  /\ ship.speed = accelerationPower - (maxReverseSpeed - 1)

\* a speed brought toward zero by friction, stopping at zero
Slowed(speed) ==
  IF speed > friction THEN speed - friction
  ELSE IF speed < -friction THEN speed + friction
  ELSE 0

\* C24: on a tick of the update block, with a the acceleration of that tick:
\* if a is zero or the bunkers are empty, friction alone acts and brings the
\* speed toward zero by `friction` without passing zero; if speed + a
\* reaches a limit on the side of a, the speed ends `friction` inside that
\* limit; on every other tick the speed changes by exactly a.
FrictionRule ==
  [][(IsTick /\ SessionActive) =>
       LET a == ship'.acceleration
       IN  IF a = 0 \/ (variant = "extended" /\ currentCoal <= 0)
           THEN ship'.speed = Slowed(ship.speed)
           ELSE IF a > 0 /\ ship.speed + a >= maxSpeed
           THEN ship'.speed = maxSpeed - friction
           ELSE IF a < 0 /\ ship.speed + a <= -maxReverseSpeed
           THEN ship'.speed = friction - maxReverseSpeed
           ELSE ship'.speed = ship.speed + a]_vars

\* the ship has run into its forward limit under acceleration and friction
\* has taken it back inside
FrictionAtLimit ==
  /\ ticks >= 1
  /\ lastTick = "update"
  /\ ship.acceleration = accelerationPower
  /\ ship.speed = maxSpeed - friction

\* C25: a tick of the update block that ends with speed 0 leaves heading,
\* camera, distance sailed and coal as they were, whatever the rudder angle
\* and the Left and Right flags.
AtRestNothingMoves ==
  [][(IsTick /\ SessionActive /\ ship'.speed = 0) =>
       /\ ship'.rotation = ship.rotation
       /\ camera' = camera
       /\ totalDistance' = totalDistance
       /\ currentCoal' = currentCoal]_vars

\* the ship lies still on its first heading after a tick with Left held: the
\* rudder is one step over and has turned nothing
RudderOverAtRest ==
  /\ ticks >= 1
  /\ lastTick = "update"
  /\ keys.ArrowLeft
  /\ ship.speed = 0
  /\ ship.rudderAngle = -rudderSpeed
  /\ ship.rotation = initialRotation

\* the icebergs a step has appended to the list
Appended == SubSeq(icebergs', Len(icebergs) + 1, Len(icebergs'))

\* C26: every iceberg appended by a tick of the update block lies in the
\* world rectangle of a chunk that tick has generated, which its seed names
\* as well, with a size in [minSize, maxSize] and a whole point count in
\* [minPoints, maxPoints]; and each chunk the tick has generated has
\* contributed at most chunkArea / viewportArea * density icebergs.
WellFormedIcebergs ==
  [][IsUpdate =>
       LET new  == loadedIcebergChunks' \ loadedIcebergChunks
           side == icebergGridSize \div PosScale
       IN  /\ \A n \in 1..Len(Appended) :
                 LET b == Appended[n]
                 IN  /\ \E c \in new :
                          /\ c[1] * icebergGridSize <= b.x
                          /\ b.x < (c[1] + 1) * icebergGridSize
                          /\ c[2] * icebergGridSize <= b.y
                          /\ b.y < (c[2] + 1) * icebergGridSize
                          /\ b.seed >= c[1] * 1000 + c[2]
                          /\ (b.seed - (c[1] * 1000 + c[2])) * canvas.width * canvas.height
                               < side * side * density
                     /\ minSize <= b.size /\ b.size <= maxSize
                     /\ b.pointCount \in minPoints..maxPoints
           /\ \A c \in new :
                 Len(InChunk(Appended, c)) * canvas.width * canvas.height
                   <= side * side * density]_vars

\* the first tick has filled a chunk to the expected count of the smaller
\* window (two icebergs) and has left another chunk with fewer
ChunkFilled ==
  /\ ticks = 1
  /\ lastTick = "update"
  /\ \E c \in loadedIcebergChunks : Len(InChunk(icebergs, c)) = 2
  /\ \E c \in loadedIcebergChunks : Len(InChunk(icebergs, c)) < 2

\* C27: in the extended script, with Up held throughout and no terminal
\* state, the coal comes to 0 (every tick with Up held and coal left leaves
\* the ship moving and burns some); once it is 0 it stays 0 and every tick takes
\* `friction` off the speed, whatever keys are held, so the ship comes to
\* rest within maxSpeed / friction ticks, and at rest it stays.
DepletionStall ==
  /\ <>(~keys.ArrowUp \/ Terminal \/ currentCoal = 0)
  /\ (currentCoal = 0) ~> (ship.speed = 0 \/ Terminal)
  /\ [][(currentCoal > 0 /\ ship.speed >= 0 /\ keys.ArrowUp
            /\ IsTick /\ SessionActive) =>
          (ship'.speed > 0 /\ currentCoal' < currentCoal)]_vars
  /\ [][(currentCoal = 0 /\ IsTick /\ SessionActive) =>
          /\ currentCoal' = 0
          /\ ship'.speed = Slowed(ship.speed)]_vars
  /\ [][(currentCoal = 0 /\ ship.speed = 0 /\ ~Terminal) =>
          (ship'.speed = 0 /\ currentCoal' = 0)]_vars

\* the ship has burnt the last coal at the forward limit, has coasted the
\* 174 ticks it takes friction to stop it, and lies still with Up held
StalledUnderUp ==
  /\ horizon = MaxVoyageTicks
  /\ ticks > maxSpeed \div friction
  /\ lastTick = "update"
  /\ keys.ArrowUp
  /\ currentCoal = 0
  /\ ship.speed = 0
  /\ camera.y < OpenWater.y - 300 * PosScale

\* C28: in every state gameRunning is true exactly when gameOver and gameWon
\* are both false.
RunningIffNotTerminal == gameRunning <=> (~gameOver /\ ~gameWon)

\* the tick that reached the goal has cleared gameRunning along with setting
\* gameWon
StoppedByWin ==
  /\ gameWon
  /\ ~gameOver
  /\ ~gameRunning
  /\ lastTick = "update"

\* C29: in the extended script, once the script has run and as long as the
\* ship has not moved in a session (no distance sailed), it is at goalRadius
\* or more from the goal and the session is not Won.
NeverStartsInGoal ==
  (variant = "extended" /\ booted /\ goal.generated /\ totalDistance = 0) =>
    (~gameWon /\ ~NearerThan(camera, goal, goalRadius))

=============================================================================
